---- MODULE Spec2Model ----
(***************************************************************************)
(* A model of src/main.py: the SousChefAgent class (long-term memory,      *)
(* tool dispatch, response interpretation, calendar export) and the CLI    *)
(* loop that drives it.                                                    *)
(*                                                                         *)
(* Strings are sequences of symbols.  A symbol is one character, or an     *)
(* indivisible run of lowercase non-blank characters ("reakfast"), so that *)
(* str.strip() and str.lower() are computed symbol by symbol.              *)
(***************************************************************************)
EXTENDS Integers, Sequences, FiniteSets, TLC

VARIABLES
    file,        \* content of memory_bank.json, shared by every agent
    userOf,      \* agent -> its user_id (fixed at construction)
    status,      \* agent -> "unborn" | "ready" | "crashed" | "exited"
    pantry,      \* agent -> self.pantry
    liked,       \* agent -> self.liked_recipes
    disliked,    \* agent -> self.disliked_recipes
    depth,       \* agent -> number of model requests of the utterance in progress
    calendar,    \* user -> events of <tempdir>/sous_chef_calendars/<user>_meal_plan.ics
    persisted,   \* history: user -> the record its last completed _save_memory was given
    last         \* history: what the last step did, and what it returned

vars == <<file, userOf, status, pantry, liked, disliked, depth, calendar,
          persisted, last>>

----------------------------------------------------------------------------
(* Bounds *)

\* longest list of ingredients one call passes
MaxItems == 2

----------------------------------------------------------------------------
(* Strings *)

Agents == {"a1", "a2"}
Users == {"u1", "u2"}

Range(s) == {s[i] : i \in 1..Len(s)}

\* the sequences that list the set S once each, in some order (list(a_set))
Orders(S) == {s \in [1..Cardinality(S) -> S] : Range(s) = S}

Uppers == <<"B", "D", "E", "I", "K", "L", "M", "S", "REAKFAST", "UNCH">>
Lowers == <<"b", "d", "e", "i", "k", "l", "m", "s", "reakfast", "unch">>

\* str.lower() on one symbol
LowerSym(c) ==
    IF \E i \in 1..Len(Uppers) : Uppers[i] = c
    THEN Lowers[CHOOSE i \in 1..Len(Uppers) : Uppers[i] = c]
    ELSE c

\* str.lower()
Lower(s) == [i \in 1..Len(s) |-> LowerSym(s[i])]

IsSpace(c) == c = " "

RECURSIVE LStrip(_)
LStrip(s) == IF s # <<>> /\ IsSpace(Head(s)) THEN LStrip(Tail(s)) ELSE s

RECURSIVE RStrip(_)
RStrip(s) ==
    IF s # <<>> /\ IsSpace(s[Len(s)]) THEN RStrip(SubSeq(s, 1, Len(s) - 1)) ELSE s

\* str.strip()
Strip(s) == RStrip(LStrip(s))

\* a mutant of Normalize: the name is trimmed but its case is kept
NormalizeKeepCase(item) == Strip(item)

\* item.strip().lower()
Normalize(item) == Lower(Strip(item))

\* the numbers of blanks put before and after a name offered as input
Pads == {0, 1}

Blanks(n) == [i \in 1..n |-> " "]

\* the ways of writing the one-letter name whose lowercase letter is c
Spellings(c) ==
    {Blanks(l) \o <<x>> \o Blanks(t) :
        l \in Pads, t \in Pads,
        x \in {c} \cup {Uppers[i] : i \in {j \in 1..Len(Uppers) : Lowers[j] = c}}}

IngredientLetters == {"e", "m"}
RecipeLetters == {"s"}

RawIngredients == UNION {Spellings(c) : c \in IngredientLetters}
RawRecipes == UNION {Spellings(c) : c \in RecipeLetters}

IngredientLists == UNION {[1..n -> RawIngredients] : n \in 0..MaxItems}

LIKE == <<"l", "i", "k", "e">>
DISLIKE == <<"d", "i", "s", "l", "i", "k", "e">>

Feedbacks ==
    {LIKE, DISLIKE, <<"L", "i", "k", "e">>, <<"D", "I", "S", "L", "I", "K", "E">>,
     <<" ", "l", "i", "k", "e">>, <<"m", "e">>}

----------------------------------------------------------------------------
(* The memory file and the agent's record *)

EmptyMem == [pantry |-> {}, liked |-> {}, disliked |-> {}]

Mem(a) == [pantry |-> pantry[a], liked |-> liked[a], disliked |-> disliked[a]]

\* the value stored under one user id; present = FALSE when the key is absent
NoRec ==
    [present |-> FALSE, pantry |-> <<>>, liked_recipes |-> <<>>,
     disliked_recipes |-> <<>>]

EmptyBank == [u \in Users |-> NoRec]

\* kind: "missing" (no file), "invalid" (not JSON: JSONDecodeError),
\* "nonobject" (JSON, but a list, number, string or null), "object"
FileOf(kind, bank) == [kind |-> kind, bank |-> bank]

\* the sets a stored value holds (set(user_data.get(key, [])))
MemOf(rec) ==
    [pantry |-> Range(rec.pantry), liked |-> Range(rec.liked_recipes),
     disliked |-> Range(rec.disliked_recipes)]

\* a mutant of load_memory: the disliked recipes are not read back
load_memory_no_disliked(f, user, mem) ==
    CASE f.kind = "missing" -> [raised |-> FALSE, mem |-> mem]
      [] f.kind = "invalid" -> [raised |-> FALSE, mem |-> mem]
      [] f.kind = "nonobject" -> [raised |-> TRUE, mem |-> mem]
      [] OTHER -> [raised |-> FALSE,
                   mem |-> [MemOf(f.bank[user]) EXCEPT !.disliked = {}]]

\* _load_memory: [raised, mem]; mem is the record after the call
load_memory(f, user, mem) ==
    CASE f.kind = "missing" -> [raised |-> FALSE, mem |-> mem]
      [] f.kind = "invalid" -> [raised |-> FALSE, mem |-> mem]
      [] f.kind = "nonobject" -> [raised |-> TRUE, mem |-> mem]
      [] OTHER -> [raised |-> FALSE, mem |-> MemOf(f.bank[user])]

\* a mutant of save_memory: the file is rewritten with this user's record alone
save_memory_no_merge(f, user, po, lo, do) ==
    IF f.kind = "nonobject"
    THEN [raised |-> TRUE, file |-> f]
    ELSE [raised |-> FALSE,
          file |-> FileOf("object",
                     [EmptyBank EXCEPT ![user] =
                        [present |-> TRUE, pantry |-> po, liked_recipes |-> lo,
                         disliked_recipes |-> do]])]

\* _save_memory: [raised, file]; po, lo, do are list(self.pantry),
\* list(self.liked_recipes), list(self.disliked_recipes)
save_memory(f, user, po, lo, do) ==
    IF f.kind = "nonobject"
    THEN [raised |-> TRUE, file |-> f]
    ELSE LET full_memory_bank == IF f.kind = "object" THEN f.bank ELSE EmptyBank
         IN  [raised |-> FALSE,
              file |-> FileOf("object",
                         [full_memory_bank EXCEPT ![user] =
                            [present |-> TRUE, pantry |-> po, liked_recipes |-> lo,
                             disliked_recipes |-> do]])]

----------------------------------------------------------------------------
(* Python values: what json.loads returns and what the tools receive *)

\* t: "str" (s), "num" (n), "arr" (items), "obj" (keys with items, in order)
PStr(s) == [t |-> "str", s |-> s, n |-> 0, items |-> <<>>, keys |-> <<>>]
PNum(n) == [t |-> "num", s |-> <<>>, n |-> n, items |-> <<>>, keys |-> <<>>]
PArr(items) == [t |-> "arr", s |-> <<>>, n |-> 0, items |-> items, keys |-> <<>>]
PObj(keys, items) == [t |-> "obj", s |-> <<>>, n |-> 0, items |-> items, keys |-> keys]

StrList(strs) == PArr([i \in 1..Len(strs) |-> PStr(strs[i])])

\* key in obj
HasKey(v, k) == v.t = "obj" /\ \E i \in 1..Len(v.keys) : v.keys[i] = k

\* obj[key], for a key the object has (a repeated key keeps its last value)
Get(v, k) ==
    v.items[CHOOSE i \in 1..Len(v.keys) :
                /\ v.keys[i] = k
                /\ \A j \in (i + 1)..Len(v.keys) : v.keys[j] # k]

\* v[key] with a string key: [raised, val]; KeyError when the key is absent,
\* TypeError when v is no dict
Subscript(v, k) ==
    IF HasKey(v, k)
    THEN [raised |-> FALSE, val |-> Get(v, k)]
    ELSE [raised |-> TRUE, val |-> PNum(0)]

\* v.get(key, default), for a dict v
GetOr(v, k, default) == IF HasKey(v, k) THEN Get(v, k) ELSE default

\* the keys of a dict, each once, in insertion order
RECURSIVE DictKeys(_)
DictKeys(keys) ==
    IF keys = <<>> THEN <<>>
    ELSE LET front == SubSeq(keys, 1, Len(keys) - 1)
             k == keys[Len(keys)]
         IN  IF k \in Range(front) THEN DictKeys(front)
             ELSE Append(DictKeys(front), k)

\* for item in v: [raised, items]; a number is not iterable
Iter(v) ==
    CASE v.t = "arr" -> [raised |-> FALSE, items |-> v.items]
      [] v.t = "str" -> [raised |-> FALSE,
                         items |-> [i \in 1..Len(v.s) |-> PStr(<<v.s[i]>>)]]
      [] v.t = "obj" -> [raised |-> FALSE,
                         items |-> LET ks == DictKeys(v.keys)
                                   IN  [i \in 1..Len(ks) |-> PStr(ks[i])]]
      [] OTHER -> [raised |-> TRUE, items |-> <<>>]

----------------------------------------------------------------------------
(* The memory tools, up to their call of _save_memory: [raised, mem] *)

\* self.pantry.update([item.strip().lower() for item in ingredients])
add_to_pantry_mem(mem, ingredients) ==
    LET it == Iter(ingredients)
    IN  IF it.raised \/ \E i \in 1..Len(it.items) : it.items[i].t # "str"
        THEN [raised |-> TRUE, mem |-> mem]
        ELSE [raised |-> FALSE,
              mem |-> [mem EXCEPT !.pantry =
                         @ \cup {Normalize(it.items[i].s) : i \in 1..Len(it.items)}]]

\* for item in ingredients: self.pantry.discard(item.strip().lower())
remove_from_pantry_mem(mem, ingredients) ==
    LET it == Iter(ingredients)
        bad == {i \in 1..Len(it.items) : it.items[i].t # "str"}
        stop == IF bad = {} THEN Len(it.items) + 1
                ELSE CHOOSE i \in bad : \A j \in bad : i <= j
    IN  IF it.raised THEN [raised |-> TRUE, mem |-> mem]
        ELSE [raised |-> bad # {},
              mem |-> [mem EXCEPT !.pantry =
                         @ \ {Normalize(it.items[i].s) : i \in 1..(stop - 1)}]]

\* a mutant of add_feedback_mem: the name is added and the other set kept
add_feedback_mem_keep(mem, recipe_name, feedback) ==
    IF recipe_name.t # "str" \/ feedback.t # "str"
    THEN [raised |-> TRUE, mem |-> mem]
    ELSE LET name == Normalize(recipe_name.s)
         IN  [raised |-> FALSE,
              mem |-> CASE Lower(feedback.s) = LIKE ->
                             [mem EXCEPT !.liked = @ \cup {name}]
                        [] Lower(feedback.s) = DISLIKE ->
                             [mem EXCEPT !.disliked = @ \cup {name}]
                        [] OTHER -> mem]

\* add_feedback, lines 279-285
add_feedback_mem(mem, recipe_name, feedback) ==
    IF recipe_name.t # "str" \/ feedback.t # "str"
    THEN [raised |-> TRUE, mem |-> mem]
    ELSE LET name == Normalize(recipe_name.s)
         IN  [raised |-> FALSE,
              mem |-> CASE Lower(feedback.s) = LIKE ->
                             [mem EXCEPT !.liked = @ \cup {name},
                                         !.disliked = @ \ {name}]
                        [] Lower(feedback.s) = DISLIKE ->
                             [mem EXCEPT !.disliked = @ \cup {name},
                                         !.liked = @ \ {name}]
                        [] OTHER -> mem]

\* the ways list() can order the three sets of a record
ListsFor(mem) ==
    {[p |-> po, l |-> lo, d |-> do] :
        po \in Orders(mem.pantry), lo \in Orders(mem.liked),
        do \in Orders(mem.disliked)}

StoredRec(ord) ==
    [present |-> TRUE, pantry |-> ord.p, liked_recipes |-> ord.l,
     disliked_recipes |-> ord.d]

\* a mutant of then_save: the tool returns without calling _save_memory
then_save_forgets(f, user, r, ord) ==
    [raised |-> r.raised, saved |-> FALSE, mem |-> r.mem, file |-> f]

\* a tool's mutation r followed by self._save_memory(): [raised, saved, mem, file]
then_save(f, user, r, ord) ==
    IF r.raised
    THEN [raised |-> TRUE, saved |-> FALSE, mem |-> r.mem, file |-> f]
    ELSE LET s == save_memory(f, user, ord.p, ord.l, ord.d)
         IN  [raised |-> s.raised, saved |-> ~s.raised, mem |-> r.mem,
              file |-> s.file]

\* a mutant of add_to_pantry: the stored pantry is read again and kept
add_to_pantry_reloads(f, user, mem, ingredients, ord) ==
    LET r == add_to_pantry_mem(mem, ingredients)
        stored == IF f.kind = "object" THEN f.bank[user].pantry ELSE <<>>
        IsNew(x) == x \notin Range(ord.p)
    IN  then_save(f, user,
                  [r EXCEPT !.mem.pantry = @ \cup (IF r.raised THEN {} ELSE Range(stored))],
                  [ord EXCEPT !.p = @ \o SelectSeq(stored, IsNew)])

\* self.pantry.update(...) then self._save_memory(), lines 268-269
add_to_pantry(f, user, mem, ingredients, ord) ==
    then_save(f, user, add_to_pantry_mem(mem, ingredients), ord)

remove_from_pantry(f, user, mem, ingredients, ord) ==
    then_save(f, user, remove_from_pantry_mem(mem, ingredients), ord)

add_feedback(f, user, mem, recipe_name, feedback, ord) ==
    then_save(f, user, add_feedback_mem(mem, recipe_name, feedback), ord)

----------------------------------------------------------------------------
(* State *)

\* the history record of a step
Did(agent, op, out) ==
    [agent |-> agent, op |-> op, out |-> out, saved |-> FALSE, cls |-> "none",
     tid |-> 0, names |-> {}, again |-> FALSE, requests |-> 0, arg |-> PNum(0)]

\* the record stored for a user, NoRec when the file holds no such record
RecordIn(f, user) == IF f.kind = "object" THEN f.bank[user] ELSE NoRec

\* history: what a user's last completed _save_memory was given to write
Saved(f, user) == [present |-> RecordIn(f, user).present, mem |-> MemOf(RecordIn(f, user))]

\* the lowercase letter a spelling spells
LetterOf(raw) ==
    CHOOSE c \in IngredientLetters \cup RecipeLetters : raw \in Spellings(c)

InitFiles ==
    {FileOf("missing", EmptyBank), FileOf("invalid", EmptyBank),
     FileOf("nonobject", EmptyBank), FileOf("object", EmptyBank),
     FileOf("object",
            [EmptyBank EXCEPT !["u2"] =
               [present |-> TRUE, pantry |-> <<<<"e">>>>, liked_recipes |-> <<>>,
                disliked_recipes |-> <<<<"s">>>>]])}

InitWith(users) ==
    /\ file \in InitFiles
    /\ userOf = users
    /\ status = [a \in Agents |-> "unborn"]
    /\ pantry = [a \in Agents |-> {}]
    /\ liked = [a \in Agents |-> {}]
    /\ disliked = [a \in Agents |-> {}]
    /\ depth = [a \in Agents |-> 0]
    /\ calendar = [u \in Users |-> <<>>]
    /\ persisted = [u \in Users |-> Saved(file, u)]
    /\ last = Did("none", "init", "none")

\* each agent has its own user id
Init == InitWith([a \in Agents |-> IF a = "a1" THEN "u1" ELSE "u2"])

SetMem(a, mem) ==
    /\ pantry' = [pantry EXCEPT ![a] = mem.pantry]
    /\ liked' = [liked EXCEPT ![a] = mem.liked]
    /\ disliked' = [disliked EXCEPT ![a] = mem.disliked]

\* SousChefAgent.__init__: [raised, mem]; without the credential ValueError is
\* raised before anything else happens
construct(f, user, credential) ==
    IF ~credential THEN [raised |-> TRUE, mem |-> EmptyMem]
    ELSE load_memory(f, user, EmptyMem)

\* agent = SousChefAgent(user_id=...), in a new process
Construct(a) ==
    /\ status[a] # "ready"
    /\ \E credential \in BOOLEAN :
         LET c == construct(file, userOf[a], credential)
         IN  /\ status' = [status EXCEPT ![a] = IF c.raised THEN "crashed" ELSE "ready"]
             /\ SetMem(a, IF c.raised THEN EmptyMem ELSE c.mem)
             /\ last' = [Did(a, "construct", IF c.raised THEN "raised" ELSE "returned")
                           EXCEPT !.cls = IF credential THEN "credential" ELSE "none"]
    /\ depth' = [depth EXCEPT ![a] = 0]
    /\ UNCHANGED <<file, userOf, calendar, persisted>>

\* what a completed _save_memory leaves in the history
Persist(a, o) ==
    persisted' =
        IF o.saved
        THEN [persisted EXCEPT ![userOf[a]] = [present |-> TRUE, mem |-> o.mem]]
        ELSE persisted

\* the effect o of a memory tool called on the agent object
Called(a, op, o, names, cls, again) ==
    /\ SetMem(a, o.mem)
    /\ file' = o.file
    /\ Persist(a, o)
    /\ last' = [Did(a, op, IF o.raised THEN "raised" ELSE "returned")
                  EXCEPT !.saved = o.saved, !.names = names, !.cls = cls,
                         !.again = again /\ ~o.raised]
    /\ UNCHANGED <<userOf, status, depth, calendar>>

\* history: the last step was this agent's completed add_to_pantry of these names
JustAdded(a, names) ==
    /\ last.op = "add_to_pantry"
    /\ last.agent = a
    /\ last.out = "returned"
    /\ names # {}
    /\ names \subseteq last.names

\* agent.add_to_pantry(ingredients)
AddToPantry(a, lists) ==
    /\ status[a] = "ready" /\ depth[a] = 0
    /\ \E ingredients \in lists :
         \E ord \in ListsFor(add_to_pantry_mem(Mem(a), StrList(ingredients)).mem) :
            LET names == {LetterOf(x) : x \in Range(ingredients)}
            IN  Called(a, "add_to_pantry",
                       add_to_pantry(file, userOf[a], Mem(a), StrList(ingredients), ord),
                       names, "none", JustAdded(a, names))

\* agent.remove_from_pantry(ingredients)
RemoveFromPantry(a, lists) ==
    /\ status[a] = "ready" /\ depth[a] = 0
    /\ \E ingredients \in lists :
         \E ord \in ListsFor(remove_from_pantry_mem(Mem(a), StrList(ingredients)).mem) :
            Called(a, "remove_from_pantry",
                   remove_from_pantry(file, userOf[a], Mem(a), StrList(ingredients), ord),
                   {}, "none", FALSE)

\* history: which feedback a spelling gives ("other": neither, nothing is recorded)
FeedbackOf(feedback) ==
    CASE feedback \in {LIKE, <<"L", "i", "k", "e">>} -> "like"
      [] feedback \in {DISLIKE, <<"D", "I", "S", "L", "I", "K", "E">>} -> "dislike"
      [] OTHER -> "other"

\* agent.add_feedback(recipe_name, feedback); the history's "again" says that the
\* name was in the opposite set when the call began
AddFeedback(a, recipes, feedbacks) ==
    /\ status[a] = "ready" /\ depth[a] = 0
    /\ \E recipe_name \in recipes, feedback \in feedbacks :
         \E ord \in ListsFor(add_feedback_mem(Mem(a), PStr(recipe_name),
                                              PStr(feedback)).mem) :
            LET name == <<LetterOf(recipe_name)>>
            IN  Called(a, "add_feedback",
                       add_feedback(file, userOf[a], Mem(a), PStr(recipe_name),
                                    PStr(feedback), ord),
                       {LetterOf(recipe_name)}, FeedbackOf(feedback),
                       \/ FeedbackOf(feedback) = "like" /\ name \in disliked[a]
                       \/ FeedbackOf(feedback) = "dislike" /\ name \in liked[a])

\* the CLI loop on "exit" or "quit": agent._save_memory(), then the process ends
Quit(a) ==
    /\ status[a] = "ready" /\ depth[a] = 0
    /\ \E ord \in ListsFor(Mem(a)) :
         LET o == then_save(file, userOf[a], [raised |-> FALSE, mem |-> Mem(a)], ord)
         IN  /\ file' = o.file
             /\ Persist(a, o)
             /\ status' = [status EXCEPT ![a] = IF o.raised THEN "crashed" ELSE "exited"]
             /\ last' = [Did(a, "quit", IF o.raised THEN "raised" ELSE "returned")
                           EXCEPT !.saved = o.saved]
    /\ SetMem(a, EmptyMem)
    /\ UNCHANGED <<userOf, depth, calendar>>

\* one agent used through its methods, with every spelling of every name
Next ==
    \/ Construct("a1")
    \/ AddToPantry("a1", IngredientLists)
    \/ RemoveFromPantry("a1", IngredientLists)
    \/ AddFeedback("a1", RawRecipes, Feedbacks)
    \/ Quit("a1")

Spec == Init /\ [][Next]_vars

\* the inputs of the two-agent specification
FewLists == {<<>>, <<<<"e">>>>, <<<<" ", "M">>>>, <<<<"E", " ">>, <<"m">>>>}
FewFeedbacks == {LIKE, <<"D", "I", "S", "L", "I", "K", "E">>}

\* two agents, one process each, sharing the memory file; each _save_memory
\* runs from its read to its write with no other file access in between
NextTwo ==
    \E a \in Agents :
        \/ Construct(a)
        \/ AddToPantry(a, FewLists)
        \/ RemoveFromPantry(a, FewLists)
        \/ AddFeedback(a, {<<"S">>}, FewFeedbacks)
        \/ Quit(a)

SpecTwo == Init /\ [][NextTwo]_vars

\* two agents constructed with the same user id (the default "cli_user" of two
\* CLI processes started in one directory)
InitSame == InitWith([a \in Agents |-> "u1"])

\* the two processes construct their agent, add to the pantry and quit
NextSame ==
    \E a \in Agents :
        \/ Construct(a)
        \/ AddToPantry(a, FewLists)
        \/ Quit(a)

SpecSame == InitSame /\ [][NextSame]_vars

----------------------------------------------------------------------------
(* Model responses: text as a sequence of tokens *)

\* a token: k is "{", "}", "[", "]", ":", ",", "atom" (a JSON string or number,
\* its value in v), "ws" (whitespace), "word" (prose), "fence" (three
\* backticks) or "fencejson" (three backticks and the word json)
Tok(k) == [k |-> k, v |-> PNum(0)]
Atom(v) == [k |-> "atom", v |-> v]

\* the JSON text of a value, as json.dumps writes it
RECURSIVE Dumps(_)
RECURSIVE DumpsItems(_, _, _)
DumpsItems(keys, items, i) ==
    IF i > Len(items) THEN <<>>
    ELSE (IF i > 1 THEN <<Tok(","), Tok("ws")>> ELSE <<>>)
         \o (IF keys # <<>> THEN <<Atom(PStr(keys[i])), Tok(":"), Tok("ws")>> ELSE <<>>)
         \o Dumps(items[i])
         \o DumpsItems(keys, items, i + 1)
Dumps(v) ==
    CASE v.t = "arr" -> <<Tok("[")>> \o DumpsItems(<<>>, v.items, 1) \o <<Tok("]")>>
      [] v.t = "obj" -> <<Tok("{")>> \o DumpsItems(v.keys, v.items, 1) \o <<Tok("}")>>
      [] OTHER -> <<Atom(v)>>

\* the first position from i on that holds no whitespace
RECURSIVE SkipWs(_, _)
SkipWs(toks, i) ==
    IF i <= Len(toks) /\ toks[i].k = "ws" THEN SkipWs(toks, i + 1) ELSE i

NoParse == [ok |-> FALSE, val |-> PNum(0), next |-> 0]

Is(toks, i, k) == i <= Len(toks) /\ toks[i].k = k

\* the JSON value that starts at position i: [ok, val, next]
RECURSIVE ParseValue(_, _)
RECURSIVE ParseMembers(_, _, _, _)
RECURSIVE ParseElements(_, _, _)
ParseValue(toks, i0) ==
    LET i == SkipWs(toks, i0)
    IN  CASE Is(toks, i, "atom") -> [ok |-> TRUE, val |-> toks[i].v, next |-> i + 1]
          [] Is(toks, i, "{") ->
               LET j == SkipWs(toks, i + 1)
               IN  IF Is(toks, j, "}")
                   THEN [ok |-> TRUE, val |-> PObj(<<>>, <<>>), next |-> j + 1]
                   ELSE ParseMembers(toks, j, <<>>, <<>>)
          [] Is(toks, i, "[") ->
               LET j == SkipWs(toks, i + 1)
               IN  IF Is(toks, j, "]")
                   THEN [ok |-> TRUE, val |-> PArr(<<>>), next |-> j + 1]
                   ELSE ParseElements(toks, j, <<>>)
          [] OTHER -> NoParse
\* "key": value pairs from position i0 on, up to the closing brace
ParseMembers(toks, i0, keys, items) ==
    LET i == SkipWs(toks, i0)
        c == SkipWs(toks, i + 1)
    IN  IF ~(Is(toks, i, "atom") /\ toks[i].v.t = "str" /\ Is(toks, c, ":"))
        THEN NoParse
        ELSE LET r == ParseValue(toks, c + 1)
                 e == SkipWs(toks, r.next)
             IN  CASE ~r.ok -> NoParse
                   [] Is(toks, e, "}") ->
                        [ok |-> TRUE,
                         val |-> PObj(Append(keys, toks[i].v.s), Append(items, r.val)),
                         next |-> e + 1]
                   [] Is(toks, e, ",") ->
                        ParseMembers(toks, e + 1, Append(keys, toks[i].v.s),
                                     Append(items, r.val))
                   [] OTHER -> NoParse
\* array elements from position i0 on, up to the closing bracket
ParseElements(toks, i0, items) ==
    LET r == ParseValue(toks, i0)
        e == SkipWs(toks, r.next)
    IN  CASE ~r.ok -> NoParse
          [] Is(toks, e, "]") ->
               [ok |-> TRUE, val |-> PArr(Append(items, r.val)), next |-> e + 1]
          [] Is(toks, e, ",") -> ParseElements(toks, e + 1, Append(items, r.val))
          [] OTHER -> NoParse

\* json.loads: [ok, val]; ok = FALSE is json.JSONDecodeError
json_loads(toks) ==
    LET r == ParseValue(toks, 1)
    IN  IF r.ok /\ SkipWs(toks, r.next) > Len(toks)
        THEN [ok |-> TRUE, val |-> r.val]
        ELSE [ok |-> FALSE, val |-> PNum(0)]

Min(S) == CHOOSE x \in S : \A y \in S : x <= y
Max(S) == CHOOSE x \in S : \A y \in S : x >= y

\* a mutant of json_match: the span ends at the first closing brace, not the last
json_match_lazy(text) ==
    LET starts == {i \in 1..Len(text) :
                      /\ text[i].k = "{"
                      /\ \E j \in (i + 1)..Len(text) : text[j].k = "}"}
    IN  IF starts = {} THEN [found |-> FALSE, span |-> <<>>]
        ELSE LET i == Min(starts)
                 j == Min({n \in (i + 1)..Len(text) : text[n].k = "}"})
             IN  [found |-> TRUE, span |-> SubSeq(text, i, j)]

\* re.search(r'\{.*\}', raw_text, re.DOTALL): the leftmost position where the
\* pattern matches, and the longest match from there
json_match(text) ==
    LET starts == {i \in 1..Len(text) :
                      /\ text[i].k = "{"
                      /\ \E j \in (i + 1)..Len(text) : text[j].k = "}"}
    IN  IF starts = {} THEN [found |-> FALSE, span |-> <<>>]
        ELSE LET i == Min(starts)
                 j == Max({n \in (i + 1)..Len(text) : text[n].k = "}"})
             IN  [found |-> TRUE, span |-> SubSeq(text, i, j)]

\* raw_text.strip().replace("```json", "").replace("```", "")
cleaned_text(text) ==
    LET lead == SkipWs(text, 1)
        RECURSIVE End(_)
        End(n) == IF n >= 1 /\ text[n].k = "ws" THEN End(n - 1) ELSE n
    IN  SelectSeq(SubSeq(text, lead, End(Len(text))),
                  LAMBDA t : t.k \notin {"fence", "fencejson"})

TOOL_CODE == <<"tool_code">>
TOOL_PARAMS == <<"tool_params">>

\* ask, lines 241-260: what the response text is taken to be; cls is
\* "ToolCall" (val to be dispatched), "StructuredPayload" (val returned) or
\* "ConversationalText" (text is the cleaned text returned)
interpret(raw_text) ==
    LET json_matched == json_match(raw_text)
        json_response == json_loads(json_matched.span)
    IN  IF json_matched.found /\ json_response.ok
        THEN IF HasKey(json_response.val, TOOL_CODE)
                /\ HasKey(json_response.val, TOOL_PARAMS)
             THEN [cls |-> "ToolCall", val |-> json_response.val, text |-> <<>>]
             ELSE [cls |-> "StructuredPayload", val |-> json_response.val,
                   text |-> <<>>]
        ELSE [cls |-> "ConversationalText", val |-> PNum(0),
              text |-> cleaned_text(raw_text)]

----------------------------------------------------------------------------
(* Calendar export *)

\* longest meal plan passed to create_calendar_file
MaxPlanLen == 2
\* largest day number a meal entry carries
MaxDay == 2

BreakfastHour == 8
LunchHour == 13
DinnerHour == 19
EventHours == 1

Digits == <<"0", "1", "2", "3", "4", "5", "6", "7", "8", "9">>

IsDigit(c) == \E i \in 1..Len(Digits) : Digits[i] = c
DigitValue(c) == (CHOOSE i \in 1..Len(Digits) : Digits[i] = c) - 1

\* the '%Y-%m-%d' text of the date n days after today (0 <= n <= 9)
DateString(n) == <<"date", Digits[n + 1]>>

\* datetime.strptime(v, '%Y-%m-%d').date(): [ok, date]; ok = FALSE is the
\* ValueError (not a date) or TypeError (not a string) that line 368 catches;
\* dates are counted in days from today
strptime(v) ==
    IF v.t = "str" /\ Len(v.s) = 2 /\ v.s[1] = "date" /\ IsDigit(v.s[2])
    THEN [ok |-> TRUE, date |-> DigitValue(v.s[2])]
    ELSE [ok |-> FALSE, date |-> 0]

\* int(v): [raised, val]
int_of(v) ==
    CASE v.t = "num" -> [raised |-> FALSE, val |-> v.n]
      [] v.t = "str" /\ Len(Strip(v.s)) = 1 /\ IsDigit(Strip(v.s)[1]) ->
           [raised |-> FALSE, val |-> DigitValue(Strip(v.s)[1])]
      [] OTHER -> [raised |-> TRUE, val |-> 0]

DAY == <<"day">>
DAY_STR == <<"day_str">>
MEAL_TYPE == <<"meal_type">>
MEAL_NAME == <<"meal_name">>
BREAKFAST == <<"b", "reakfast">>
LUNCH == <<"l", "unch">>

\* f"{v}"
Format(v) == IF v.t = "str" THEN v.s ELSE <<"repr">>

\* lines 366-369: [raised, date]; today is day 0
meal_date(meal) ==
    LET parsed == strptime(GetOr(meal, DAY_STR, PStr(DateString(0))))
        day == int_of(GetOr(meal, DAY, PNum(1)))
    IN  CASE parsed.ok -> [raised |-> FALSE, date |-> parsed.date]
          [] day.raised -> [raised |-> TRUE, date |-> 0]
          [] OTHER -> [raised |-> FALSE, date |-> 0 + (day.val - 1)]

\* lines 372-377: the hour of the day the event begins
event_hour(meal_type) ==
    CASE Lower(meal_type) = BREAKFAST -> BreakfastHour
      [] Lower(meal_type) = LUNCH -> LunchHour
      [] OTHER -> DinnerHour

\* lines 362-381, one meal: [raised, event]
meal_event(meal) ==
    LET none == [name |-> <<>>, date |-> 0, hour |-> 0, duration |-> 0]
    IN  IF ~(HasKey(meal, MEAL_TYPE) /\ HasKey(meal, MEAL_NAME))
        THEN [raised |-> TRUE, event |-> none]
        ELSE LET d == meal_date(meal)
                 type == Get(meal, MEAL_TYPE)
             IN  IF d.raised \/ type.t # "str"
                 THEN [raised |-> TRUE, event |-> none]
                 ELSE [raised |-> FALSE,
                       event |-> [name |-> Format(type) \o <<": ">>
                                             \o Format(Get(meal, MEAL_NAME)),
                                  date |-> d.date,
                                  hour |-> event_hour(type.s),
                                  duration |-> EventHours]]

\* create_calendar_file: [ok, events]; ok = FALSE is the error result of line
\* 398, and then no file is written
create_calendar_file(meal_plan) ==
    LET it == Iter(meal_plan)
        made == [i \in 1..Len(it.items) |-> meal_event(it.items[i])]
    IN  IF it.raised \/ \E i \in 1..Len(made) : made[i].raised
        THEN [ok |-> FALSE, events |-> <<>>]
        ELSE [ok |-> TRUE, events |-> [i \in 1..Len(made) |-> made[i].event]]

----------------------------------------------------------------------------
(* Tool dispatch and ask *)

\* most model requests one utterance is followed through
MaxDepth == 3

Tool(name) == PStr(<<name>>)

MealPlanArgs == {<<"days">>, <<"diet">>, <<"preferences">>}
RecipeArgs == {<<"extra_ingredients">>, <<"dietary_needs">>, <<"cooking_time">>}

\* f(**tool_params) binds: tool_params is a mapping and names only parameters of f
Binds(tool_params, args) ==
    tool_params.t = "obj" /\ Range(tool_params.keys) \subseteq args

NoOrd == [p |-> <<>>, l |-> <<>>, d |-> <<>>]

\* _call_tool: kind is "raised" (an exception leaves _call_tool), "success"
\* ({"status": "success", ...}), "failure" ({"status": "error", ...}), "pantry"
\* (view_pantry's result) or "nested" (self.ask(prompt) is entered)
call_tool(f, user, mem, cal, tool_code, tool_params, ord) ==
    LET same == [mem |-> mem, file |-> f, saved |-> FALSE, cal |-> cal]
        with(kind) == [kind |-> kind] @@ same
        tool(o) == [kind |-> IF o.raised THEN "raised" ELSE "success",
                    mem |-> o.mem, file |-> o.file, saved |-> o.saved, cal |-> cal]
        ingredients == Subscript(tool_params, <<"ingredients">>)
        recipe_name == Subscript(tool_params, <<"recipe_name">>)
        feedback == Subscript(tool_params, <<"feedback">>)
        meal_plan == Subscript(tool_params, <<"meal_plan">>)
    IN  CASE tool_code = Tool("add_to_pantry") ->
               IF ingredients.raised THEN with("raised")
               ELSE tool(add_to_pantry(f, user, mem, ingredients.val, ord))
          [] tool_code = Tool("remove_from_pantry") ->
               IF ingredients.raised THEN with("raised")
               ELSE tool(remove_from_pantry(f, user, mem, ingredients.val, ord))
          [] tool_code = Tool("add_feedback") ->
               IF recipe_name.raised \/ feedback.raised THEN with("raised")
               ELSE tool(add_feedback(f, user, mem, recipe_name.val, feedback.val, ord))
          [] tool_code = Tool("view_pantry") -> with("pantry")
          [] tool_code = Tool("generate_meal_plan") ->
               IF Binds(tool_params, MealPlanArgs) THEN with("nested")
               ELSE with("raised")
          [] tool_code = Tool("generate_recipe") ->
               IF Binds(tool_params, RecipeArgs) THEN with("nested")
               ELSE with("raised")
          [] tool_code = Tool("create_calendar_file") ->
               IF meal_plan.raised THEN with("raised")
               ELSE LET c == create_calendar_file(meal_plan.val)
                    IN  IF c.ok THEN [with("success") EXCEPT !.cal = c.events]
                        ELSE with("failure")
          [] OTHER -> with("failure")

\* a mutant of ask_outcome: an exception raised by the tool is not caught
ask_outcome_uncaught(kind) ==
    CASE kind = "raised" -> "escaped"
      [] kind = "success" -> "tool_success"
      [] kind = "failure" -> "tool_error"
      [] OTHER -> kind

\* ask, lines 249 and 262-264: what ask returns for what _call_tool did; "error"
\* is {"error": ..., "raw_response": ...}, "tool_success" and "tool_error" are
\* the tool's own {"status": ...} result
ask_outcome(kind) ==
    CASE kind = "raised" -> "error"
      [] kind = "success" -> "tool_success"
      [] kind = "failure" -> "tool_error"
      [] OTHER -> kind

----------------------------------------------------------------------------
(* The responses the model is taken to give *)

Call(code, params) == PObj(<<TOOL_CODE, TOOL_PARAMS>>, <<code, params>>)
Obj1(k, v) == PObj(<<<<k>>>>, <<v>>)
NoParams == PObj(<<>>, <<>>)

SoupLunch ==
    PObj(<<DAY, MEAL_TYPE, MEAL_NAME>>,
         <<PNum(2), PStr(<<"L", "unch">>), PStr(<<"s">>)>>)

Payloads ==
    <<Call(Tool("add_to_pantry"),
           Obj1("ingredients", StrList(<<<<"e">>, <<" ", "M">>>>))),
      Call(Tool("add_to_pantry"), Obj1("ingredients", StrList(<<<<"E", " ">>>>))),
      Call(Tool("add_to_pantry"), NoParams),
      Call(Tool("add_to_pantry"),
           Obj1("ingredients", PArr(<<PStr(<<"m">>), PNum(5)>>))),
      Call(Tool("add_to_pantry"), PStr(<<"e">>)),
      Call(Tool("remove_from_pantry"),
           Obj1("ingredients", StrList(<<<<" ", "E">>>>))),
      Call(Tool("remove_from_pantry"), Obj1("items", StrList(<<<<"e">>>>))),
      Call(Tool("remove_from_pantry"),
           Obj1("ingredients", PArr(<<PStr(<<"m">>), PNum(5), PStr(<<"e">>)>>))),
      Call(Tool("add_feedback"),
           PObj(<<<<"recipe_name">>, <<"feedback">>>>,
                <<PStr(<<" ", "S">>), PStr(<<"L", "i", "k", "e">>)>>)),
      Call(Tool("add_feedback"),
           PObj(<<<<"recipe_name">>, <<"feedback">>>>,
                <<PStr(<<"s">>), PStr(DISLIKE)>>)),
      Call(Tool("add_feedback"), Obj1("recipe_name", PStr(<<"s">>))),
      Call(Tool("add_feedback"), Obj1("feedback", PStr(LIKE))),
      Call(Tool("view_pantry"), NoParams),
      Call(Tool("generate_meal_plan"), NoParams),
      Call(Tool("generate_recipe"), Obj1("cooking_time", PStr(<<"s">>))),
      Call(Tool("generate_recipe"), Obj1("days", PNum(3))),
      Call(Tool("create_calendar_file"), Obj1("meal_plan", PArr(<<SoupLunch>>))),
      Call(Tool("create_calendar_file"), Obj1("meal_plan", PArr(<<PNum(5)>>))),
      Call(Tool("create_calendar_file"), NoParams),
      Call(Tool("bake_cake"), NoParams),
      Call(PNum(5), NoParams),
      Obj1("title", PStr(<<"s">>)),
      Obj1("tool_code", Tool("view_pantry")),
      Obj1("tool_params", NoParams)>>

\* the ways a payload comes wrapped in text: after prose, inside a fenced
\* block, before prose
Wrapped(toks, w) ==
    CASE w = 1 -> <<Tok("word"), Tok("ws")>> \o toks
      [] w = 2 -> <<Tok("fencejson"), Tok("ws")>> \o toks \o <<Tok("ws"), Tok("fence")>>
      [] OTHER -> <<Tok("ws")>> \o toks \o <<Tok("ws"), Tok("word")>>

\* the payloads that are also given wrapped
WrappedOnes == <<1, 13, 22>>

\* texts that hold no single JSON object
OtherTexts ==
    <<<<Tok("word"), Tok("ws"), Tok("word")>>,
      <<Tok("ws"), Tok("fence"), Tok("word"), Tok("fence"), Tok("ws")>>,
      <<Tok("}"), Tok("word"), Tok("{")>>,
      <<Tok("{"), Tok("word"), Tok("}")>>,
      <<Tok("{"), Tok("word")>>,
      <<Tok("word"), Tok("}")>>,
      <<>>,
      Dumps(Payloads[13]) \o <<Tok("ws")>> \o Dumps(Payloads[22]),
      Dumps(Payloads[13]) \o <<Tok("word"), Tok("}")>>,
      <<Tok("{"), Tok("word")>> \o Dumps(Payloads[13]),
      <<Tok("[")>> \o Dumps(Payloads[22]) \o <<Tok(","), Atom(PNum(5)), Tok("]")>>,
      <<Tok("{"), Atom(PStr(<<"title">>)), Tok(":"), Atom(PNum(5)), Tok(","), Tok("}")>>,
      <<Tok("{"), Atom(PNum(5)), Tok(":"), Atom(PNum(5)), Tok("}")>>>>

\* the payload a text was built around, and how (0: the payload alone)
PayloadOf ==
    [i \in 1..(Len(Payloads) + 3 * Len(WrappedOnes)) |->
        IF i <= Len(Payloads) THEN [p |-> i, w |-> 0]
        ELSE [p |-> WrappedOnes[((i - Len(Payloads) - 1) \div 3) + 1],
              w |-> ((i - Len(Payloads) - 1) % 3) + 1]]

Texts ==
    [i \in 1..(Len(PayloadOf) + Len(OtherTexts)) |->
        CASE i > Len(PayloadOf) -> OtherTexts[i - Len(PayloadOf)]
          [] PayloadOf[i].w = 0 -> Dumps(Payloads[PayloadOf[i].p])
          [] OTHER -> Wrapped(Dumps(Payloads[PayloadOf[i].p]), PayloadOf[i].w)]

\* what ask takes each text to be
Interpreted == [i \in DOMAIN Texts |-> interpret(Texts[i])]

\* what the model answers: send_message raises, response.text raises, or a text
Replies == {[kind |-> k, tid |-> 0] : k \in {"send_raises", "text_raises"}}
           \cup {[kind |-> "text", tid |-> i] : i \in DOMAIN Texts}

----------------------------------------------------------------------------
(* The CLI loop: response = agent.ask(user_input) *)

\* what one model request of ask leaves behind; out = "escaped" is an exception
\* leaving the outermost ask, which ends the process; out = "nested" is ask
\* entered again from generate_meal_plan or generate_recipe
Answered(a, reply, cls, out, ct, arg) ==
    /\ out = "nested" => depth[a] + 1 < MaxDepth
    /\ SetMem(a, IF out = "escaped" THEN EmptyMem ELSE ct.mem)
    /\ file' = ct.file
    /\ Persist(a, ct)
    /\ calendar' = [calendar EXCEPT ![userOf[a]] = ct.cal]
    /\ status' = [status EXCEPT ![a] = IF out = "escaped" THEN "crashed" ELSE @]
    /\ depth' = [depth EXCEPT ![a] = IF out = "nested" THEN @ + 1 ELSE 0]
    /\ last' = [Did(a, "ask", out)
                  EXCEPT !.cls = cls, !.tid = reply.tid, !.saved = ct.saved,
                         !.requests = depth[a] + 1, !.arg = arg]
    /\ UNCHANGED userOf

\* ask, from send_message to its return, for one reply of the model.  When
\* response.text raises, the handler of line 264 reads response.text again,
\* which raises again, out of ask: at the outermost ask that ends the CLI
\* loop; below it the exception is caught by the ask that called the tool.
Ask(a) ==
    /\ status[a] = "ready"
    /\ \E reply \in Replies :
         LET same == [mem |-> Mem(a), file |-> file, saved |-> FALSE,
                      cal |-> calendar[userOf[a]]]
             it == Interpreted[reply.tid]
             code == Get(it.val, TOOL_CODE)
             params == Get(it.val, TOOL_PARAMS)
             try == call_tool(file, userOf[a], Mem(a), calendar[userOf[a]],
                              code, params, NoOrd)
         IN  CASE reply.kind = "send_raises" ->
                    Answered(a, reply, "send_raises", "error", same, PNum(0))
               [] reply.kind = "text_raises" ->
                    Answered(a, reply, "text_raises",
                             IF depth[a] = 0 THEN "escaped" ELSE "error",
                             same, PNum(0))
               [] reply.kind = "text" /\ it.cls = "ToolCall" ->
                    \E ord \in ListsFor(try.mem) :
                       LET ct == call_tool(file, userOf[a], Mem(a),
                                           calendar[userOf[a]], code, params, ord)
                       IN  Answered(a, reply, it.cls, ask_outcome(ct.kind), ct,
                                    PNum(0))
               [] reply.kind = "text" /\ it.cls = "StructuredPayload" ->
                    Answered(a, reply, it.cls, "payload", same, it.val)
               [] OTHER ->
                    Answered(a, reply, it.cls, "response", same, PNum(0))

NextAsk ==
    \/ Construct("a1")
    \/ Ask("a1")
    \/ Quit("a1")

SpecAsk == Init /\ [][NextAsk]_vars

----------------------------------------------------------------------------
(* create_calendar_file called with meal plans of every shape *)

MealTypes == <<<<"B", "reakfast">>, <<"L", "UNCH">>, <<"s", "nack">>>>

\* a meal entry: day 0 stands for no "day" key; day_str is "absent", "date"
\* (the text of the date three days from today) or "bad" (not a date)
Meal(day, day_str, type) ==
    PObj((IF day = 0 THEN <<>> ELSE <<DAY>>)
            \o (IF day_str = "absent" THEN <<>> ELSE <<DAY_STR>>)
            \o <<MEAL_TYPE, MEAL_NAME>>,
         (IF day = 0 THEN <<>> ELSE <<PNum(day)>>)
            \o (CASE day_str = "absent" -> <<>>
                  [] day_str = "date" -> <<PStr(DateString(3))>>
                  [] OTHER -> <<PStr(<<"s">>)>>)
            \o <<PStr(MealTypes[type]), PStr(<<"s">>)>>)

Meals ==
    {Meal(day, "absent", type) : day \in 0..MaxDay, type \in 1..Len(MealTypes)}
    \cup {Meal(day, day_str, 1) : day \in 0..MaxDay, day_str \in {"date", "bad"}}
    \cup {Obj1("meal_name", PStr(<<"s">>))}

MealPlans == {PArr(p) : p \in UNION {[1..n -> Meals] : n \in 0..MaxPlanLen}}

\* agent.create_calendar_file(meal_plan)
CreateCalendarFile(a) ==
    /\ status[a] = "ready" /\ depth[a] = 0
    /\ \E meal_plan \in MealPlans :
         LET c == create_calendar_file(meal_plan)
         IN  /\ calendar' = IF c.ok THEN [calendar EXCEPT ![userOf[a]] = c.events]
                            ELSE calendar
             /\ last' = [Did(a, "create_calendar_file",
                             IF c.ok THEN "tool_success" ELSE "tool_error")
                           EXCEPT !.arg = IF c.ok THEN meal_plan ELSE PNum(0)]
    /\ UNCHANGED <<file, userOf, status, pantry, liked, disliked, depth, persisted>>

NextCal ==
    \/ Construct("a1")
    \/ CreateCalendarFile("a1")

SpecCal == Init /\ [][NextCal]_vars

----------------------------------------------------------------------------
(* Claims about the agent's memory *)

\* C1: whatever add_feedback calls were made, no recipe name is in both
\* liked_recipes and disliked_recipes, and the name just given as "like"
\* ("dislike") is in liked_recipes (disliked_recipes) only.
C1_LikedDislikedDisjoint ==
    \A a \in Agents :
        /\ liked[a] \cap disliked[a] = {}
        /\ (last.agent = a /\ last.op = "add_feedback" /\ last.out = "returned") =>
              \A c \in last.names :
                  /\ last.cls = "like" => <<c>> \in liked[a] \ disliked[a]
                  /\ last.cls = "dislike" => <<c>> \in disliked[a] \ liked[a]

\* C1: a liked recipe has just been given as "dislike"
C1_Witness ==
    /\ last.op = "add_feedback" /\ last.cls = "dislike" /\ last.again
    /\ disliked["a1"] = {<<"s">>}

\* C6: constructing an agent, credential present, over a missing or corrupt
\* memory file raises nothing and yields the empty record.
C6_CorruptFileLoadsEmpty ==
    \A a \in Agents :
        (/\ last.agent = a /\ last.op = "construct" /\ last.cls = "credential"
         /\ file.kind \in {"missing", "invalid", "nonobject"}) =>
            /\ last.out = "returned"
            /\ status[a] = "ready"
            /\ Mem(a) = EmptyMem

\* C7: an agent constructed over the file loads exactly the pantry, liked and
\* disliked sets that its user's last completed _save_memory was given.
C7_RoundTrip ==
    \A a \in Agents :
        (last.agent = a /\ last.op = "construct" /\ last.out = "returned") =>
            Mem(a) = persisted[userOf[a]].mem

\* C7: a record with two ingredients and a liked recipe, saved by a1 and loaded back
C7_Witness ==
    /\ last.op = "construct" /\ last.out = "returned" /\ last.agent = "a1"
    /\ pantry["a1"] = {<<"e">>, <<"m">>}
    /\ liked["a1"] = {<<"s">>}

\* C8: when add_to_pantry is called again with names the call just before it
\* added, in whatever spelling, the pantry and the stored record stay as they
\* were, and the pantry holds each such name once, lowercase and trimmed.
C8_AddTwiceIsAddOnce ==
    [][\A a \in Agents :
          (last'.agent = a /\ last'.op = "add_to_pantry" /\ last'.again) =>
              /\ pantry'[a] = pantry[a]
              /\ Saved(file', userOf[a]) = Saved(file, userOf[a])
              /\ \A c \in last'.names :
                    {y \in pantry'[a] : y \in Spellings(c)} = {<<c>>}]_vars

\* C8: the same ingredient added twice in a row
C8_Witness ==
    /\ last.op = "add_to_pantry" /\ last.again /\ last.names = {"e"}
    /\ pantry["a1"] = {<<"e">>}

\* C2: with one user id per agent, the record the file holds for a user is
\* always the one that user's own last _save_memory was given, whatever the
\* other agent persisted since.
C2_OtherUsersRecordKept ==
    \A u \in Users : Saved(file, u) = persisted[u]

\* C2: a1 has just persisted while the file holds what a2 persisted
C2_Witness ==
    /\ last.agent = "a1" /\ last.saved
    /\ status["a2"] = "ready"
    /\ persisted["u2"].mem.pantry = {<<"m">>}
    /\ persisted["u1"].mem.pantry = {<<"e">>, <<"m">>}

----------------------------------------------------------------------------
(* Claims about ask, tool dispatch and the calendar *)

MemoryTools == {Tool("add_to_pantry"), Tool("remove_from_pantry"), Tool("add_feedback")}

FixedTools ==
    MemoryTools \cup {Tool("view_pantry"), Tool("generate_meal_plan"),
                      Tool("generate_recipe"), Tool("create_calendar_file")}

\* the parameter keys a tool reads with tool_params[key]
RequiredKeys(code) ==
    CASE code \in {Tool("add_to_pantry"), Tool("remove_from_pantry")} ->
           {<<"ingredients">>}
      [] code = Tool("add_feedback") -> {<<"recipe_name">>, <<"feedback">>}
      [] code = Tool("create_calendar_file") -> {<<"meal_plan">>}
      [] OTHER -> {}

\* the payload the text of the last step was built around
LastPayload(l) == Payloads[PayloadOf[l.tid].p]

IsCall(l) ==
    /\ l.op = "ask" /\ l.tid \in DOMAIN PayloadOf
    /\ HasKey(LastPayload(l), TOOL_CODE) /\ HasKey(LastPayload(l), TOOL_PARAMS)

UnknownTool(l) == IsCall(l) /\ Get(LastPayload(l), TOOL_CODE) \notin FixedTools

MissingKey(l) ==
    /\ IsCall(l)
    /\ \E k \in RequiredKeys(Get(LastPayload(l), TOOL_CODE)) :
          ~HasKey(Get(LastPayload(l), TOOL_PARAMS), k)

C4_BadCallIsAnError ==
    [][\A a \in Agents :
          (last'.agent = a /\ (UnknownTool(last') \/ MissingKey(last'))) =>
              /\ last'.out \in {"error", "tool_error"}
              /\ UnknownTool(last') => last'.out = "tool_error"
              /\ status'[a] = "ready"
              /\ pantry'[a] = pantry[a]
              /\ liked'[a] = liked[a]
              /\ disliked'[a] = disliked[a]
              /\ file' = file]_vars

\* C4: add_to_pantry called without "ingredients" on a pantry that holds two
C4_Witness ==
    /\ MissingKey(last) /\ last.out = "error"
    /\ Get(LastPayload(last), TOOL_CODE) = Tool("add_to_pantry")
    /\ pantry["a1"] = {<<"e">>, <<"m">>}

\* C5: when the model call inside ask fails, in send_message or in reading
\* response.text, ask returns an error result and the CLI loop goes on.
C5_ModelFailureIsAnError ==
    \A a \in Agents :
        (last.agent = a /\ last.op = "ask"
         /\ last.cls \in {"send_raises", "text_raises"}) =>
            last.out = "error" /\ status[a] = "ready"

\* C9: when add_to_pantry, remove_from_pantry or add_feedback, dispatched from
\* ask, returns success, the file holds the agent's pantry, liked and disliked
\* sets under its user id, and holds every other user's record as it was.
C9_SuccessMeansPersisted ==
    [][\A a \in Agents :
          (/\ last'.agent = a /\ IsCall(last') /\ last'.out = "tool_success"
           /\ Get(LastPayload(last'), TOOL_CODE) \in MemoryTools) =>
              /\ file'.kind = "object"
              /\ file'.bank[userOf[a]].present
              /\ MemOf(file'.bank[userOf[a]]) =
                    [pantry |-> pantry'[a], liked |-> liked'[a],
                     disliked |-> disliked'[a]]
              /\ \A u \in Users \ {userOf[a]} :
                    RecordIn(file', u) = RecordIn(file, u)]_vars

\* C9: add_to_pantry has returned success next to another user's stored record
C9_Witness ==
    /\ IsCall(last) /\ last.out = "tool_success"
    /\ Get(LastPayload(last), TOOL_CODE) = Tool("add_to_pantry")
    /\ pantry["a1"] = {<<"e">>, <<"m">>}
    /\ RecordIn(file, "u2").present

\* the hour the claim gives a meal type
ClaimedHour(type) ==
    CASE type = MealTypes[1] -> BreakfastHour
      [] type = MealTypes[2] -> LunchHour
      [] OTHER -> DinnerHour

\* C10: every meal entry without a day_str gets an event on day - 1 days from
\* today (day 1 when there is no day), at the hour of its meal type, for 1 hour.
C10_DateFromDay ==
    (last.op = "create_calendar_file" /\ last.out = "tool_success") =>
        LET plan == last.arg.items
            events == calendar[userOf[last.agent]]
        IN  /\ Len(events) = Len(plan)
            /\ \A i \in 1..Len(plan) :
                  ~HasKey(plan[i], DAY_STR) =>
                      /\ events[i].date = GetOr(plan[i], DAY, PNum(1)).n - 1
                      /\ events[i].hour = ClaimedHour(Get(plan[i], MEAL_TYPE).s)
                      /\ events[i].duration = EventHours

----------------------------------------------------------------------------
(* Claims about two instances of one user, and about the requests of one ask *)

\* C11: two agents with the same user id on one memory file can lose an update.
\* An add_to_pantry that returns stores exactly the caller's own pantry with the
\* names it added, whatever the record held: a name the other instance stored
\* and the caller never loaded is gone from the stored record afterwards, though
\* nobody removed it (C11_Witness is that state, reached by interleaving the two
\* instances' add_to_pantry calls).
C11_StoredIsCallersOwn ==
    [][\A a \in Agents :
          (last'.agent = a /\ last'.op = "add_to_pantry" /\ last'.out = "returned") =>
              /\ RecordIn(file', userOf[a]).present
              /\ Range(RecordIn(file', userOf[a]).pantry) =
                    pantry[a] \cup {<<n>> : n \in last'.names}
              /\ \A x \in Range(RecordIn(file, userOf[a]).pantry) :
                    x \notin pantry'[a] => x \notin Range(RecordIn(file', userOf[a]).pantry)]_vars

\* C11: a1 and a2 have the same user id, a1 added "e" and still holds it, no
\* step of SpecSame removes anything, and after a2's add_to_pantry the stored
\* record has a2's "m" and lacks "e"
C11_Witness ==
    /\ userOf["a1"] = userOf["a2"]
    /\ status["a1"] = "ready" /\ status["a2"] = "ready"
    /\ last.agent = "a2" /\ last.op = "add_to_pantry" /\ last.out = "returned"
    /\ <<"e">> \in pantry["a1"]
    /\ persisted[userOf["a1"]].present
    /\ Range(RecordIn(file, userOf["a1"]).pantry) = {<<"m">>}

\* C12: while one utterance is handled, ask sends the model at most two
\* requests: the first, and at most one more from generate_meal_plan or
\* generate_recipe.
C12_AtMostTwoRequests ==
    last.op = "ask" => last.requests <= 2

====
